---- MODULE Spec2Model ----
(***************************************************************************)
(* check_images.py: the Overseer audits the images of one directory.       *)
(* inspect() runs the per-file checks and the duplicate clustering, log()  *)
(* writes the report, sweep() applies the configured action to every       *)
(* offending file.  The image codec, the perceptual hash and its distance, *)
(* the entropy function and the filesystem are the environment: what they  *)
(* return for a file is drawn when the program first asks, and kept: the   *)
(* directory does not change unless the action removes a file.             *)
(***************************************************************************)
EXTENDS Integers, Sequences, FiniteSets, TLC

\* Bounds of the model.
MaxFiles == 3
MaxScans == 2

\* Program constants (argparse defaults).
side_length == 512
entropy_threshold == 3
soft_hash_threshold == 8
expected_mode == "RGB"

Offense == {"CORRUPT", "MODE", "DUPLICATE", "SIZE", "ENTROPY"}

\* Values the environment hands to the Overseer.
HashValues == {"h1", "h2", "h3"}
Modes == {"RGB", "L"}
Sizes == {<<512, 512>>, <<256, 512>>}
EntropyValues == {2, 3}

\* What the codec, the hash function and the entropy function give for one
\* file: open/verify, image.mode, image.size, the re-open and load of the
\* hash stage and its hash, the re-open and load of the entropy stage and
\* its entropy.
ImageFile == [verifies : BOOLEAN, mode : Modes, size : Sizes,
              hashLoads : BOOLEAN, hash : HashValues,
              entropyLoads : BOOLEAN, entropy : EntropyValues]

GoodFile == [verifies |-> TRUE, mode |-> "RGB", size |-> <<512, 512>>,
             hashLoads |-> TRUE, hash |-> "h1",
             entropyLoads |-> TRUE, entropy |-> 2]

\* One file per class of files the code tells apart under a configuration:
\* an attribute the code never reads for a file keeps GoodFile's value.  A
\* file that fails a check is not read further; a stage that is switched off
\* or whose load fails does not read the hash or the entropy.
HashOutcomes(c) ==
    IF c.check_hash
    THEN {<<FALSE, GoodFile.hash>>} \cup {<<TRUE, h>> : h \in HashValues}
    ELSE {<<TRUE, GoodFile.hash>>}

EntropyOutcomes(c) ==
    IF c.check_entropy
    THEN {<<FALSE, GoodFile.entropy>>} \cup {<<TRUE, e>> : e \in EntropyValues}
    ELSE {<<TRUE, GoodFile.entropy>>}

FileKinds(c) ==
    {[GoodFile EXCEPT !.verifies = FALSE],
     [GoodFile EXCEPT !.mode = "L"],
     [GoodFile EXCEPT !.size = <<256, 512>>]}
    \cup {[GoodFile EXCEPT !.hashLoads = ho[1], !.hash = ho[2],
                           !.entropyLoads = eo[1], !.entropy = eo[2]] :
             ho \in HashOutcomes(c), eo \in EntropyOutcomes(c)}

Config == [check_hash : BOOLEAN, check_entropy : BOOLEAN, soft_hash : BOOLEAN,
           action : {"list", "remove"}]

\* inspect(), line 116: soft_hash_value - hash_value, the distance operator
\* of the hash type.  The code only compares it with the threshold; the three
\* hash values lie 5, 5 and 15 apart, so h2 is near h1 and h3, and h1 and h3
\* are far from each other.
Distance(a, b) ==
    IF a = b THEN 0
    ELSE IF {a, b} = {"h1", "h3"} THEN 15
    ELSE 5

VARIABLES
    cfg,                \* the Overseer's configuration
    listed,             \* number of files in base_dir, named 1..listed
    directory,          \* what the files read so far hold, by name
    removed,            \* files os.remove has deleted
    phase,              \* Idle, Inspecting, Clustering, Reporting, Sweeping, Done, Aborted
    exc,                \* the uncaught exception that ended the program
    pending,            \* what is left of the running for loop's iterable
    scan,               \* number of inspect() calls so far
    offenses,           \* self.offenses
    hashes,             \* self.hashes
    _hashes,            \* self._hashes
    entropies,          \* self.entropies
    n_files_inspected,
    n_offending_files,
    entropyTxt,         \* lines of entropy.txt
    hashesTxt,          \* lines of hashes.txt
    actionLog,          \* calls of self._action, in order
    prevOffenses        \* self.offenses when the previous inspect() was called

vars == <<cfg, listed, directory, removed, phase, exc, pending, scan, offenses,
          hashes, _hashes, entropies, n_files_inspected, n_offending_files,
          entropyTxt, hashesTxt, actionLog, prevOffenses>>

----
\* Python dicts keep insertion order: a dict is a sequence of [k, v].
Keys(d) == {d[i].k : i \in DOMAIN d}

Has(d, key) == key \in Keys(d)

Get(d, key) == d[CHOOSE i \in DOMAIN d : d[i].k = key].v

Put(d, key, val) ==
    IF Has(d, key)
    THEN [i \in DOMAIN d |-> IF d[i].k = key THEN [k |-> key, v |-> val] ELSE d[i]]
    ELSE Append(d, [k |-> key, v |-> val])

KeySeq(d) == [i \in DOMAIN d |-> d[i].k]

Min(S) == CHOOSE x \in S : \A y \in S : x <= y

\* Overseer._add_offense on the record s of the Overseer's three dicts.
_add_offense(s, obj, offense) ==
    [s EXCEPT !.offenses =
        IF Has(s.offenses, obj)
        THEN Put(s.offenses, obj, Get(s.offenses, obj) \cup {offense})
        ELSE Put(s.offenses, obj, {offense})]

----
\* Mutant of VerifyStep: the continue of line 68 is missing.
VerifyStepNoContinue(s, name, f) ==
    IF ~f.verifies
    THEN [s |-> _add_offense(s, name, "CORRUPT"), skip |-> FALSE]
    ELSE [s |-> s, skip |-> FALSE]

\* inspect(), lines 59-68: open and verify.  skip is the continue statement.
VerifyStep(s, name, f) ==
    IF ~f.verifies
    THEN [s |-> _add_offense(s, name, "CORRUPT"), skip |-> TRUE]
    ELSE [s |-> s, skip |-> FALSE]

\* inspect(), lines 70-73: the mode check.
ModeStep(s, name, f) ==
    IF f.mode # expected_mode
    THEN [s |-> _add_offense(s, name, "MODE"), skip |-> TRUE]
    ELSE [s |-> s, skip |-> FALSE]

\* inspect(), lines 75-79: the size check.
SizeStep(s, name, f) ==
    LET width == f.size[1]
        height == f.size[2]
    IN  IF width # side_length \/ height # side_length \/ width # height
        THEN [s |-> _add_offense(s, name, "SIZE"), skip |-> TRUE]
        ELSE [s |-> s, skip |-> FALSE]

\* Mutant of HashStage: a file whose bucket already has a member is flagged
\* DUPLICATE at once, inside the loop over the files.
HashStageEager(s, name, f) ==
    IF ~cfg.check_hash THEN s
    ELSE IF ~f.hashLoads THEN _add_offense(s, name, "CORRUPT")
    ELSE LET t == [s EXCEPT !.hashes =
                      Put(@, f.hash, (IF Has(@, f.hash) THEN Get(@, f.hash) ELSE <<>>)
                                      \o <<name>>)]
         IN  IF Has(s.hashes, f.hash) THEN _add_offense(t, name, "DUPLICATE") ELSE t

\* inspect(), lines 82-96: the hash stage (args.hash is 'dhash' in every
\* configuration the parser accepts, lines 234-237).  An OSError of the
\* re-open or the load is caught and becomes CORRUPT, and the loop body goes
\* on to the entropy stage.
HashStage(s, name, f) ==
    IF ~cfg.check_hash THEN s
    ELSE IF ~f.hashLoads THEN _add_offense(s, name, "CORRUPT")
    ELSE [s EXCEPT !.hashes =
             Put(@, f.hash, (IF Has(@, f.hash) THEN Get(@, f.hash) ELSE <<>>)
                             \o <<name>>)]

\* inspect(), lines 98-108: the entropy stage.
EntropyStage(s, name, f) ==
    IF ~cfg.check_entropy THEN s
    ELSE IF ~f.entropyLoads THEN _add_offense(s, name, "CORRUPT")
    ELSE LET t == [s EXCEPT !.entropies = Put(@, name, f.entropy)]
         IN  IF f.entropy < entropy_threshold
             THEN _add_offense(t, name, "ENTROPY")
             ELSE t

\* One pass of the loop body of inspect(), lines 57-108.
InspectOne(s, name, f) ==
    LET v == VerifyStep(s, name, f)
        m == ModeStep(v.s, name, f)
        z == SizeStep(m.s, name, f)
    IN  IF v.skip THEN v.s
        ELSE IF m.skip THEN m.s
        ELSE IF z.skip THEN z.s
        ELSE EntropyStage(HashStage(z.s, name, f), name, f)

----
\* Mutant of MergeInto: the merge builds a new list
\* (soft_hashes[k] = soft_hashes[k] + filenames), self.hashes keeps its own.
MergeIntoCopy(hs, soft, j, filenames) ==
    [hashes |-> hs,
     soft   |-> [soft EXCEPT ![j].v = @ \o filenames]]

\* inspect(), line 118: soft_hashes[soft_hash_value] += filenames.  The list
\* of soft cluster j is the very list object self.hashes holds under the
\* same key (line 122 stored it without copying), and += on a list extends
\* it in place: both dicts see the longer list.
MergeInto(hs, soft, j, filenames) ==
    [hashes |-> Put(hs, soft[j].k, Get(hs, soft[j].k) \o filenames),
     soft   |-> [soft EXCEPT ![j].v = @ \o filenames]]

\* inspect(), lines 113-122: the bucket at position i of self.hashes and all
\* after it, against the soft clusters built so far.
RECURSIVE SoftMergeFrom(_, _, _)
SoftMergeFrom(i, hs, soft) ==
    IF i > Len(hs) THEN [hashes |-> hs, soft |-> soft]
    ELSE LET hash_value == hs[i].k
             filenames == hs[i].v
             close == {j \in DOMAIN soft :
                          Distance(soft[j].k, hash_value) < soft_hash_threshold}
         IN  IF close = {}
             THEN SoftMergeFrom(i + 1, hs,
                                Append(soft, [k |-> hash_value, v |-> filenames]))
             ELSE LET r == MergeInto(hs, soft, Min(close), filenames)
                  IN  SoftMergeFrom(i + 1, r.hashes, r.soft)

\* Mutant of DuplicatesOf: the first member is not skipped.
DuplicatesOfAll(filenames) ==
    IF Len(filenames) > 1 THEN filenames ELSE <<>>

\* inspect(), lines 126-132: the members of one bucket that get DUPLICATE.
DuplicatesOf(filenames) ==
    IF Len(filenames) > 1 THEN Tail(filenames) ELSE <<>>

RECURSIVE AddAll(_, _, _)
AddAll(s, names, offense) ==
    IF names = <<>> THEN s
    ELSE AddAll(_add_offense(s, Head(names), offense), Tail(names), offense)

\* inspect(), lines 125-132, over the buckets from position i on.
RECURSIVE FlagDuplicates(_, _, _)
FlagDuplicates(s, hs, i) ==
    IF i > Len(hs) THEN s
    ELSE FlagDuplicates(AddAll(s, DuplicatesOf(hs[i].v), "DUPLICATE"), hs, i + 1)

\* inspect(), lines 110-132.
ClusterResult(s, old_hashes) ==
    LET m == IF cfg.soft_hash
             THEN SoftMergeFrom(1, s.hashes, <<>>)
             ELSE [hashes |-> s.hashes, soft |-> old_hashes]
        t == [s EXCEPT !.hashes = m.hashes]
    IN  [s |-> FlagDuplicates(t, m.hashes, 1), soft |-> m.soft]

\* os.listdir(self._base_dir): the names of the files still on disk, of
\* the n the directory held at first.
ListDir(n) == SelectSeq([i \in 1..n |-> i], LAMBDA i : i \notin removed)

\* log(), lines 143-145 and 160-166: the lines of the two report files.
EntropyLines(es) == [i \in DOMAIN es |-> <<es[i].k, es[i].v>>]

RECURSIVE HashLines(_, _)
HashLines(hs, i) ==
    IF i > Len(hs) THEN <<>>
    ELSE (IF Len(hs[i].v) < 2 THEN <<>> ELSE <<<<hs[i].k>> \o hs[i].v>>)
         \o HashLines(hs, i + 1)

----
\* The three dicts of the Overseer, as the record the loop body works on.
Dicts == [offenses |-> offenses, hashes |-> hashes, entropies |-> entropies]

\* Overseer.__init__, lines 41-46, for every configuration the argument
\* parser accepts.  create_thumbnails keeps its default (off).
Init ==
    /\ cfg \in Config
    /\ listed = 0
    /\ directory = <<>>
    /\ removed = {}
    /\ phase = "Idle"
    /\ exc = "none"
    /\ pending = <<>>
    /\ scan = 0
    /\ offenses = <<>>
    /\ hashes = <<>>
    /\ _hashes = <<>>
    /\ entropies = <<>>
    /\ n_files_inspected = 0
    /\ n_offending_files = 0
    /\ entropyTxt = <<>>
    /\ hashesTxt = <<>>
    /\ actionLog = <<>>
    /\ prevOffenses = <<>>

\* inspect(), line 55: os.listdir is read once and the for loop starts.
EnterLoop(filenames) ==
    /\ scan' = scan + 1
    /\ pending' = filenames
    /\ phase' = IF filenames = <<>> THEN "Clustering" ELSE "Inspecting"
    /\ UNCHANGED <<cfg, directory, removed, exc, offenses, hashes, _hashes,
                   entropies, n_files_inspected, n_offending_files, entropyTxt,
                   hashesTxt, actionLog>>

\* __main__, line 244: overseer.inspect(), on a directory of at most
\* MaxFiles files.
StartInspect ==
    /\ phase = "Idle"
    /\ \E n \in 0..MaxFiles :
          /\ listed' = n
          /\ EnterLoop(ListDir(n))
    /\ UNCHANGED prevOffenses

\* inspect(), lines 55-108: the loop body for the next listed file.  A file
\* read before holds what it held then.
InspectFile ==
    /\ phase = "Inspecting"
    /\ pending # <<>>
    /\ \E f \in (IF Head(pending) \in DOMAIN directory
                 THEN {directory[Head(pending)]} ELSE FileKinds(cfg)) :
          LET name == Head(pending)
              s == InspectOne(Dicts, name, f)
          IN  /\ directory' = IF name \in DOMAIN directory THEN directory
                              ELSE Append(directory, f)
              /\ n_files_inspected' = n_files_inspected + 1
              /\ offenses' = s.offenses
              /\ hashes' = s.hashes
              /\ entropies' = s.entropies
    /\ pending' = Tail(pending)
    /\ phase' = IF Tail(pending) = <<>> THEN "Clustering" ELSE "Inspecting"
    /\ UNCHANGED <<cfg, listed, removed, exc, scan, _hashes,
                   n_offending_files, entropyTxt, hashesTxt, actionLog,
                   prevOffenses>>

\* inspect(), lines 110-132: soft merge and DUPLICATE flagging; inspect()
\* returns.
Cluster ==
    /\ phase = "Clustering"
    /\ LET r == ClusterResult(Dicts, _hashes)
       IN  /\ offenses' = r.s.offenses
           /\ hashes' = r.s.hashes
           /\ _hashes' = r.soft
    /\ phase' = "Reporting"
    /\ UNCHANGED <<cfg, listed, directory, removed, exc, pending, scan, entropies,
                   n_files_inspected, n_offending_files, entropyTxt, hashesTxt,
                   actionLog, prevOffenses>>

\* log(), lines 134-166, then __main__ line 246 enters sweep()'s loop over
\* self.offenses (which ends at once when there is no offense).  The
\* percentage of line 138 divides by n_files_inspected.
Log ==
    /\ phase = "Reporting"
    /\ n_offending_files' = Len(offenses)
    /\ IF n_files_inspected = 0
       THEN /\ phase' = "Aborted"
            /\ exc' = "ZeroDivisionError"
            /\ UNCHANGED <<entropyTxt, hashesTxt, pending>>
       ELSE /\ entropyTxt' = EntropyLines(entropies)
            /\ hashesTxt' = HashLines(hashes, 1)
            /\ pending' = KeySeq(offenses)
            /\ phase' = IF offenses = <<>> THEN "Done" ELSE "Sweeping"
            /\ exc' = exc
    /\ UNCHANGED <<cfg, listed, directory, removed, scan, offenses, hashes, _hashes,
                   entropies, n_files_inspected, actionLog, prevOffenses>>

\* sweep(), lines 192-196, and the action of lines 223-230: the loop body
\* for the next key of self.offenses.  os.remove either deletes the file or
\* raises (permission denied, file not found), and nothing catches that.
\* After the last key sweep() returns and the program ends.
SweepFile ==
    /\ phase = "Sweeping"
    /\ pending # <<>>
    /\ LET name == Head(pending)
       IN  \E fails \in BOOLEAN :
              /\ fails => cfg.action = "remove"
              /\ name \in removed => fails
              /\ actionLog' = Append(actionLog, [path |-> name, raised |-> fails])
              /\ removed' = IF cfg.action = "remove" /\ ~fails
                            THEN removed \cup {name} ELSE removed
              /\ phase' = IF fails THEN "Aborted"
                          ELSE IF Tail(pending) = <<>> THEN "Done"
                          ELSE "Sweeping"
              /\ exc' = IF fails THEN "OSError" ELSE exc
              /\ pending' = IF fails THEN pending ELSE Tail(pending)
    /\ UNCHANGED <<cfg, listed, directory, scan, offenses, hashes, _hashes,
                   entropies, n_files_inspected, n_offending_files, entropyTxt,
                   hashesTxt, prevOffenses>>

\* A second inspect() on the same Overseer: nothing resets the dicts of
\* lines 41-43.
Reinspect ==
    /\ phase = "Done"
    /\ scan < MaxScans
    /\ prevOffenses' = offenses
    /\ EnterLoop(ListDir(listed))
    /\ UNCHANGED listed

Next ==
    \/ StartInspect
    \/ InspectFile
    \/ Cluster
    \/ Log
    \/ SweepFile

\* __main__, lines 244-246: one scan.
Spec == Init /\ [][Next]_vars

NextRescan ==
    \/ Next
    \/ Reinspect

\* The same, with the Overseer used for further scans.
SpecRescan == Init /\ [][NextRescan]_vars

----
\* What the claims read off a state.  Names are the files read so far.
Names == DOMAIN directory

Range(seq) == {seq[i] : i \in DOMAIN seq}

\* The Offense Set of a file: its entry in self.offenses, or nothing.
Flags(name) == IF Has(offenses, name) THEN Get(offenses, name) ELSE {}

DupFiles == {n \in Names : "DUPLICATE" \in Flags(n)}

\* The loop body of inspect() has run for the file.
Inspected(name) ==
    /\ phase # "Idle"
    /\ phase = "Inspecting" => name \notin Range(pending)

InspectReturned == phase \notin {"Idle", "Inspecting", "Clustering"}

\* Number of calls of the action on a file.
Calls(name) == Cardinality({i \in DOMAIN actionLog : actionLog[i].path = name})

\* The files whose fingerprint the hash stage takes, by the directory alone.
Hashed(n) ==
    /\ cfg.check_hash
    /\ directory[n].verifies
    /\ directory[n].mode = expected_mode
    /\ directory[n].size = <<side_length, side_length>>
    /\ directory[n].hashLoads

FilesWithHash(h) ==
    SelectSeq([n \in 1..Len(directory) |-> n],
              LAMBDA n : Hashed(n) /\ directory[n].hash = h)

\* The exact buckets in insertion order, by the directory alone.
RECURSIVE RefExactFrom(_, _)
RefExactFrom(n, seen) ==
    IF n > Len(directory) THEN <<>>
    ELSE IF Hashed(n) /\ directory[n].hash \notin seen
         THEN <<[k |-> directory[n].hash, v |-> FilesWithHash(directory[n].hash)]>>
              \o RefExactFrom(n + 1, seen \cup {directory[n].hash})
         ELSE RefExactFrom(n + 1, seen)

RefExact == RefExactFrom(1, {})

\* The greedy reference rule: each exact bucket joins the first soft cluster
\* whose representative is strictly nearer than the threshold, or opens a
\* new soft cluster.  Clusters are values here; nothing is shared.
RECURSIVE RefSoftFrom(_, _)
RefSoftFrom(buckets, clusters) ==
    IF buckets = <<>> THEN clusters
    ELSE LET b == Head(buckets)
             near == {j \in DOMAIN clusters :
                         Distance(clusters[j].k, b.k) < soft_hash_threshold}
         IN  IF near = {}
             THEN RefSoftFrom(Tail(buckets), Append(clusters, b))
             ELSE RefSoftFrom(Tail(buckets),
                     [clusters EXCEPT ![Min(near)].v = @ \o b.v])

RefSoft == RefSoftFrom(RefExact, <<>>)

\* Every member but the first of every cluster of at least two.
DuplicatesIn(clusters) ==
    UNION {Range(Tail(clusters[j].v)) :
              j \in {i \in DOMAIN clusters : Len(clusters[i].v) >= 2}}

----
\* C1: a file whose open/verify step fails has the Offense Set {CORRUPT}
\* from the moment its loop body has run until the scan ends, for every
\* setting of check_hash, check_entropy and soft_hash and whatever the other
\* files are: no MODE, SIZE, ENTROPY or DUPLICATE joins it.
C1_StructuralFailureOnlyCorrupt ==
    \A n \in Names :
        (~directory[n].verifies /\ Inspected(n)) => Flags(n) = {"CORRUPT"}

\* C1 witness: inspect() has returned with all three switches on, a file
\* that failed verification is exactly CORRUPT and another file is a
\* DUPLICATE with low ENTROPY.
C1_Witness ==
    /\ phase = "Reporting"
    /\ cfg.check_hash /\ cfg.check_entropy /\ cfg.soft_hash
    /\ \E n \in Names : ~directory[n].verifies /\ Flags(n) = {"CORRUPT"}
    /\ \E m \in Names : {"DUPLICATE", "ENTROPY"} \subseteq Flags(m)

\* C2: in exact mode, once inspect() has returned, every bucket holds the
\* hashed files of its hash in listing order, every member but the first
\* carries DUPLICATE and no first (or only) member does; so a file is a
\* DUPLICATE exactly when an earlier hashed file has its hash.
C2_ExactDuplicateRule ==
    (InspectReturned /\ cfg.check_hash /\ ~cfg.soft_hash) =>
        /\ hashes = RefExact
        /\ \A i \in DOMAIN hashes :
              /\ "DUPLICATE" \notin Flags(hashes[i].v[1])
              /\ \A j \in 2..Len(hashes[i].v) : "DUPLICATE" \in Flags(hashes[i].v[j])
        /\ DupFiles = {n \in Names : Hashed(n) /\ \E m \in 1..(n - 1) :
                          Hashed(m) /\ directory[m].hash = directory[n].hash}

\* C2 witness: exact mode with a bucket of several files and a bucket of one.
C2_Witness ==
    /\ phase = "Reporting"
    /\ cfg.check_hash /\ ~cfg.soft_hash
    /\ \E i, j \in DOMAIN hashes : Len(hashes[i].v) >= 2 /\ Len(hashes[j].v) = 1
    /\ DupFiles # {}

\* C3: in soft mode, once inspect() has returned, the files carrying
\* DUPLICATE are those the greedy reference rule flags, and self._hashes
\* holds the reference clusters.  With buckets h1, h2, h3 in this order
\* (5, 5 and 15 apart, threshold 8) the files of h2 have joined h1's
\* cluster and h3 has opened its own.
C3_SoftDuplicateRule ==
    (InspectReturned /\ cfg.check_hash /\ cfg.soft_hash) =>
        /\ LET soft == RefSoft
           IN  DupFiles = DuplicatesIn(soft) /\ _hashes = soft
        /\ KeySeq(hashes) = <<"h1", "h2", "h3">> =>
              /\ KeySeq(_hashes) = <<"h1", "h3">>
              /\ Get(_hashes, "h1") = FilesWithHash("h1") \o FilesWithHash("h2")
              /\ Get(_hashes, "h3") = FilesWithHash("h3")
              /\ Range(FilesWithHash("h2")) \subseteq DupFiles
              /\ FilesWithHash("h3")[1] \notin DupFiles

\* C3 witness: soft mode, buckets h1, h2, h3 in this order, h2's file flagged.
C3_Witness ==
    /\ phase = "Reporting"
    /\ cfg.check_hash /\ cfg.soft_hash
    /\ Distance("h1", "h2") = 5 /\ Distance("h2", "h3") = 5
    /\ Distance("h1", "h3") = 15 /\ soft_hash_threshold = 8
    /\ KeySeq(RefExact) = <<"h1", "h2", "h3">>
    /\ KeySeq(hashes) = <<"h1", "h2", "h3">>
    /\ DupFiles = Range(FilesWithHash("h2"))

----
PhaseRank(p) ==
    CASE p = "Idle" -> 0
      [] p = "Inspecting" -> 1
      [] p = "Clustering" -> 2
      [] p = "Reporting" -> 3
      [] p = "Sweeping" -> 4
      [] p = "Done" -> 5
      [] OTHER -> 6

\* C10: in every step of a scan the phase stays or moves forward in the
\* order Idle, Inspecting, Clustering, Reporting, Sweeping, Done (a loop over
\* nothing is entered and left within the step, an uncaught exception ends
\* the scan); the loop body runs only while Inspecting; clustering starts
\* only when no listed file is left and no file carries DUPLICATE before it
\* has run; log() writes only in Reporting; the action is applied only in
\* Sweeping; and from Reporting on self.offenses no longer changes.
C10_PhasesInOrder ==
    [][ /\ PhaseRank(phase) <= PhaseRank(phase')
        /\ phase = "Aborted" => phase' = "Aborted"
        /\ (n_files_inspected' # n_files_inspected \/ entropies' # entropies)
              => phase = "Inspecting"
        /\ phase' = "Clustering" => pending' = <<>>
        /\ phase' \in {"Idle", "Inspecting", "Clustering"} => DupFiles' = {}
        /\ DupFiles' # DupFiles => (phase = "Clustering" /\ phase' = "Reporting")
        /\ (n_offending_files' # n_offending_files \/ entropyTxt' # entropyTxt
              \/ hashesTxt' # hashesTxt) => phase = "Reporting"
        /\ actionLog' # actionLog => (phase = "Sweeping" /\ hashesTxt' = hashesTxt)
        /\ phase \in {"Reporting", "Sweeping", "Done", "Aborted"}
              => offenses' = offenses
      ]_vars

\* C10 witness: a scan that went through every phase: files were inspected,
\* a duplicate was flagged, the report was written, the action was applied.
C10_Witness ==
    /\ phase = "Done"
    /\ n_files_inspected = MaxFiles
    /\ DupFiles # {}
    /\ hashesTxt # <<>>
    /\ entropyTxt # <<>>
    /\ Len(actionLog) >= 2

----
\* C4: when sweep() has ended, the action has been called exactly once on
\* every filename of self.offenses and never on any other.
C4_ActionOncePerOffender ==
    (phase = "Done" \/ exc = "OSError") =>
        \A n \in Names : Calls(n) = (IF Has(offenses, n) THEN 1 ELSE 0)

\* C5: a file that carries CORRUPT carries none of SIZE, MODE and ENTROPY.
C5_CorruptExcludesOtherChecks ==
    \A n \in Names :
        "CORRUPT" \in Flags(n) => Flags(n) \cap {"SIZE", "MODE", "ENTROPY"} = {}

\* C6: after inspect() with soft_hash, every hashed filename is a member of
\* exactly one cluster of self.hashes, the mapping that flags DUPLICATE and
\* that log() writes to hashes.txt.
C6_SoftClustersPartition ==
    (InspectReturned /\ cfg.soft_hash) =>
        \A n \in Names :
            Hashed(n) =>
                Cardinality({i \in DOMAIN hashes : n \in Range(hashes[i].v)}) = 1

\* C7: a failing action does not abort the sweep: after a call that raised,
\* sweep() goes on, and it ends with the action applied to every filename
\* of self.offenses.
C7_SweepSurvivesActionFailure ==
    (\E i \in DOMAIN actionLog : actionLog[i].raised) =>
        /\ phase \in {"Sweeping", "Done"}
        /\ phase = "Done" => \A n \in Keys(offenses) : Calls(n) >= 1

\* C8: the run inspect(); log(); sweep() never stops before Done.
C8_ScanReachesDone == phase = "Done" \/ ENABLED Next

\* C9: a second inspect() on the same Overseer over the unmodified
\* directory (action=list) ends with the Offense Set mapping of the first.
C9_RescanSameOffenses ==
    (scan = 2 /\ InspectReturned /\ cfg.action = "list") =>
        Range(offenses) = Range(prevOffenses)

====
